---- MODULE Spec2Model ----
(***************************************************************************)
(* A model of yt-video-downloader.py: the script's control flow (import    *)
(* guard, zero-argument guard, argparse, option building, the engine call  *)
(* with its progress callback, the summary and the exception handlers) and *)
(* the byte-size formatter sizeof_fmt with Python's int/float arithmetic.  *)
(***************************************************************************)
EXTENDS Integers, Sequences, FiniteSets, TLC

VARIABLES
    pc,          \* position of the script
    installed,   \* whether "from yt_dlp import ..." succeeds
    argv,        \* the command line after the program name
    args,        \* the argparse namespace (NoArgs before parse_args returns)
    ydl_opts,    \* the options dictionary built by main
    ydl,         \* the constructed engine and the extract_info call it received
    exc,         \* the exception in flight inside main's try block
    event,       \* the progress event the hook was last called with, while
                 \* extract_info runs or after the hook raised
    delivered,   \* per status, how many events the engine delivered
    stdout,      \* the kinds of the print calls so far, in order
    shown,       \* the print calls of the latest step, in full
    exitcode,    \* <<status>> once the process has exited, <<>> before
    fmt          \* the frame of a stand-alone sizeof_fmt call

vars == <<pc, installed, argv, args, ydl_opts, ydl, exc, event, delivered,
          stdout, shown, exitcode, fmt>>

-----------------------------------------------------------------------------
(* Bounds of the model.                                                    *)

\* longest run of one-bits in an input mantissa (a double keeps 53)
MaxOnes == 60
\* largest bit length of the ordinary integer inputs (1024^9 has 91 bits)
MaxBits == 91
\* progress events the engine delivers during one extract_info call
MaxEvents == 2

-----------------------------------------------------------------------------
(* Python values.  Every value is a record tagged with its type, t.        *)
(* An int is neg, bits, e: magnitude bits * 2^e with bits most significant *)
(* first, no leading zero (<<>> is 0) and e >= 0; it is unbounded.  A      *)
(* float is the same with at most DBL_MANT_DIG bits and any integer e.     *)

None == [t |-> "NoneType"]
Str(s) == [t |-> "str", s |-> s]
PyInt(neg, bits, e) == [t |-> "int", neg |-> neg, bits |-> bits, e |-> e]
PyFloat(neg, bits, e) == [t |-> "float", neg |-> neg, bits |-> bits, e |-> e]

\* IEEE-754 binary64, the float of "num /= 1024.0"
DBL_MANT_DIG == 53
DBL_MAX_EXP == 1024

Ones(n) == [i \in 1..n |-> 1]
Zeros(n) == [i \in 1..n |-> 0]

\* the bits of a natural number below 2^31, and back
Width(n) == Cardinality({k \in 0..30 : 2^k <= n})
NatBitsN(n, w) == [i \in 1..w |-> (n \div 2^(w - i)) % 2]
NatBits(n) == NatBitsN(n, Width(n))

RECURSIVE BitsNat(_)
BitsNat(b) ==
    IF Len(b) = 0 THEN 0
    ELSE IF Len(b) = 1 THEN b[1]
    ELSE BitsNat(SubSeq(b, 1, Len(b) \div 2)) * 2^(Len(b) - Len(b) \div 2)
         + BitsNat(SubSeq(b, Len(b) \div 2 + 1, Len(b)))

IntOf(n) == PyInt(FALSE, NatBits(n), 0)

\* b without its leading zeros
FirstOne(b) == CHOOSE j \in 1..Len(b) : b[j] = 1 /\ \A k \in 1..(j - 1) : b[k] = 0
Strip(b) ==
    IF \A i \in 1..Len(b) : b[i] = 0 THEN <<>> ELSE SubSeq(b, FirstOne(b), Len(b))

\* b + 1
LastZero(b) == CHOOSE j \in 1..Len(b) : b[j] = 0 /\ \A k \in (j + 1)..Len(b) : b[k] = 1
IncAt(b, j) == [i \in 1..Len(b) |-> IF i < j THEN b[i] ELSE IF i = j THEN 1 ELSE 0]
Inc(b) ==
    IF \A i \in 1..Len(b) : b[i] = 1 THEN <<1>> \o Zeros(Len(b))
    ELSE IncAt(b, LastZero(b))

\* b * 10 for a b of at most 2 * LimbBits bits, in two limbs
LimbBits == DBL_MANT_DIG \div 2 + 1
HighLimb(b) == BitsNat(SubSeq(b, 1, Len(b) - LimbBits))
LowLimb(b) ==
    BitsNat(SubSeq(b, IF Len(b) > LimbBits THEN Len(b) - LimbBits + 1 ELSE 1, Len(b)))
JoinLimbs(hi, lo) ==
    IF hi = 0 THEN NatBits(lo) ELSE NatBits(hi) \o NatBitsN(lo, LimbBits)
Mul10Limbs(hi, lo10) ==
    JoinLimbs(hi * 10 + lo10 \div 2^LimbBits, lo10 % 2^LimbBits)
Mul10(b) == Mul10Limbs(HighLimb(b), LowLimb(b) * 10)

\* number of bits of the magnitude's integer part: |x| < 2^n iff MagBits(x) <= n
MagBits(x) == IF x.bits = <<>> THEN 0 ELSE Len(x.bits) + x.e

\* q plus one when the dropped part (its first bit guard, a later one-bit
\* sticky) is more than half, or is half and q is odd: ties go to even
RoundHalfEven(q, guard, sticky) ==
    IF guard = 1 /\ (sticky \/ (q # <<>> /\ q[Len(q)] = 1)) THEN Inc(q) ELSE q

\* the rounded first n bits r of a longer b: a carry out of them shifts by one
Renormalise(r, n, dropped) ==
    IF Len(r) > n THEN <<SubSeq(r, 1, n), dropped + 1>> ELSE <<r, dropped>>

\* RoundBits with the dropped bits cut off instead of rounded
TruncateBits(b, n) ==
    IF Len(b) <= n THEN <<b, 0>> ELSE <<SubSeq(b, 1, n), Len(b) - n>>

\* b rounded to its first n bits, ties to even: <<kept bits, bits dropped>>
RoundBits(b, n) ==
    IF Len(b) <= n THEN <<b, 0>>
    ELSE Renormalise(
           RoundHalfEven(SubSeq(b, 1, n), b[n + 1],
                         \E i \in (n + 2)..Len(b) : b[i] = 1),
           n, Len(b) - n)

\* int -> float as "num / 1024.0" converts its left operand: round to nearest
\* double, ties to even; OverflowError when the result is not finite
Finite(f) == IF MagBits(f) > DBL_MAX_EXP THEN [t |-> "OverflowError"] ELSE f
Rounded(x, r) == Finite(PyFloat(x.neg, r[1], x.e + r[2]))
IntToFloat(x) == Rounded(x, RoundBits(x.bits, DBL_MANT_DIG))
ToFloat(num) == IF num.t = "int" THEN IntToFloat(num) ELSE num

\* abs(num) < 1024.0 (an int is compared exactly); 1024 = 2^KibiBits
KibiBits == 10
AbsLtKibi(num) == MagBits(num) <= KibiBits

\* num / 1024.0: exact on a double (the exponents stay far above the
\* subnormal range: an int's least set bit is at 2^0 and at most eight
\* divisions are made)
DivKibi(f) ==
    IF f.t = "OverflowError" THEN f ELSE PyFloat(f.neg, f.bits, f.e - KibiBits)
TrueDivKibi(num) == DivKibi(ToFloat(num))

\* p / 2^drop rounded to an integer, ties to even (pad: p with leading zeros,
\* longer than drop)
Pad(p, drop) == Zeros(IF drop + 1 > Len(p) THEN drop + 1 - Len(p) ELSE 0) \o p
RoundPadded(pad, drop) ==
    RoundHalfEven(Strip(SubSeq(pad, 1, Len(pad) - drop)),
                  pad[Len(pad) - drop + 1],
                  \E i \in (Len(pad) - drop + 2)..Len(pad) : pad[i] = 1)
RoundShift(p, drop) == RoundPadded(Pad(p, drop), drop)

\* The digits of f"{num:.1f}": the sign and round-half-even(|num| * 10) as
\* magnitude tenths * 2^e; an int is converted to a float first.
Tenths(f) ==
    IF f.e >= 0
    THEN [sign |-> IF f.neg THEN "-" ELSE "", tenths |-> Mul10(f.bits), e |-> f.e]
    ELSE [sign |-> IF f.neg THEN "-" ELSE "",
          tenths |-> RoundShift(Mul10(f.bits), 0 - f.e), e |-> 0]
Format1f(num) == Tenths(ToFloat(num))

-----
(* sizeof_fmt(num, suffix="B")                                             *)

units == <<"", "Ki", "Mi", "Gi", "Ti", "Pi", "Ei", "Zi">>

NoRet == [t |-> "running"]
Returned(text) == [t |-> "return", text |-> text]
Raised(kind, msg) == [t |-> "raise", kind |-> kind, msg |-> msg]

\* the text f"{num:3.1f}{unit}{suffix}"
SizeText(num, unit, suffix) ==
    [num |-> Format1f(num), unit |-> unit, suffix |-> suffix]

\* the frame on entry: the loop is about to take its first unit
\* (arg keeps the argument, divs counts the divisions made)
SizeofEnter(num, suffix) ==
    [arg |-> num, num |-> num, suffix |-> suffix, i |-> 1, divs |-> 0,
     ret |-> NoRet]

\* line 30, num /= 1024.0, and the loop's next unit
Divided(st, q) ==
    IF q.t = "OverflowError"
    THEN [st EXCEPT !.ret =
              Raised("OverflowError", "int too large to convert to float")]
    ELSE [st EXCEPT !.num = q, !.i = st.i + 1, !.divs = st.divs + 1]

\* lines 29 and 31: return the text with the unit
Return(st, unit) ==
    [st EXCEPT !.ret = Returned(SizeText(st.num, unit, st.suffix))]

\* one step of the body: an iteration of the for loop, or the return after it
SizeofIter(st) ==
    IF st.i > Len(units) THEN Return(st, "Yi")
    ELSE IF st.num.t \notin {"int", "float"}
    THEN [st EXCEPT !.ret = Raised("TypeError", "bad operand type for abs()")]
    ELSE IF AbsLtKibi(st.num) THEN Return(st, units[st.i])
    ELSE Divided(st, TrueDivKibi(st.num))

RECURSIVE SizeofRun(_)
SizeofRun(st) == IF st.ret # NoRet THEN st ELSE SizeofRun(SizeofIter(st))

sizeof_fmt(num) == SizeofRun(SizeofEnter(num, "B")).ret

-----------------------------------------------------------------------------
(* Dictionaries are functions from keys to values; d.get(k, default).      *)

EmptyDict == <<>>
Get(d, k, default) == IF k \in DOMAIN d THEN d[k] ELSE default
Truthy(v) ==
    CASE v.t = "NoneType" -> FALSE
      [] v.t = "str" -> v.s # ""
      [] v.t \in {"int", "float"} -> v.bits # <<>>
      [] OTHER -> TRUE
Or(a, b) == IF Truthy(a) THEN a ELSE b

NoExc == [type |-> "(none)"]
Exc(type, msg, origin) == [type |-> type, msg |-> msg, origin |-> origin]

\* print(text, end=...)
PrintCall(kind, text, end) == [kind |-> kind, text |-> text, end |-> end]
Kinds(prints) == [i \in 1..Len(prints) |-> prints[i].kind]

-----------------------------------------------------------------------------
(* progress_hook(d): what it prints and the exception that leaves it.      *)

HookResult(prints, raised) == [prints |-> prints, raised |-> raised]

\* an exception of sizeof_fmt leaves the hook: nothing in it catches
HookRaise(r) == HookResult(<<>>, Exc(r.kind, r.msg, "progress_hook"))

\* line 153: msg, the text printed with end=''
ProgressLine(percent, size_str, speed, eta) ==
    PrintCall("progress",
              [lead |-> "\r", percent |-> percent, sep1 |-> "  ", size |-> size_str,
               sep2 |-> "  ", speed |-> speed, sep3 |-> "  ETA ", eta |-> eta],
              "")

\* lines 148-151: size_str from the results of the sizeof_fmt calls made
SizeStr(results) ==
    [parts |-> [i \in 1..Len(results) |-> results[i].text], sep |-> " / "]

\* the first call that raised, if one did
FirstRaise(results) ==
    IF results[1].t = "raise" THEN results[1]
    ELSE IF Len(results) > 1 /\ results[2].t = "raise" THEN results[2]
    ELSE NoRet

HookPrint(d, results, raise) ==
    IF raise # NoRet THEN HookRaise(raise)
    ELSE HookResult(
           <<ProgressLine(Get(d, "_percent_str", Str("?%")), SizeStr(results),
                          Get(d, "_speed_str", Str("? B/s")),
                          Get(d, "_eta_str", Str("?s")))>>,
           NoExc)

HookSizes(d, results) == HookPrint(d, results, FirstRaise(results))

\* lines 145-151: the sizeof_fmt calls, with total known or not
HookTotals(d, total, downloaded) ==
    IF Truthy(total)
    THEN HookSizes(d, <<sizeof_fmt(downloaded), sizeof_fmt(total)>>)
    ELSE HookSizes(d, <<sizeof_fmt(downloaded)>>)

\* lines 141-154: the branch for d['status'] == 'downloading'
HookDownloading(d) ==
    HookTotals(d,
               Or(Get(d, "total_bytes", None), Get(d, "total_bytes_estimated", None)),
               Or(Get(d, "downloaded_bytes", None), IntOf(0)))

\* progress_hook announcing completion for every status but 'downloading'
progress_hook_else(d) ==
    IF "status" \notin DOMAIN d
    THEN HookResult(<<>>, Exc("KeyError", "'status'", "progress_hook"))
    ELSE IF d["status"] = Str("downloading") THEN HookDownloading(d)
    ELSE HookResult(
           <<PrintCall("complete", "\nDownload complete, now post-processing...", "\n")>>,
           NoExc)

progress_hook(d) ==
    IF "status" \notin DOMAIN d
    THEN HookResult(<<>>, Exc("KeyError", "'status'", "progress_hook"))
    ELSE IF d["status"] = Str("downloading") THEN HookDownloading(d)
    ELSE IF d["status"] = Str("finished")
    THEN HookResult(
           <<PrintCall("complete", "\nDownload complete, now post-processing...", "\n")>>,
           NoExc)
    ELSE HookResult(<<>>, NoExc)

-----------------------------------------------------------------------------
(* The command line and argparse.                                          *)

Absent == "(absent)"
Url == "https://youtu.be/dQw4w9WgXcQ"
choices == {"best", "bestvideo", "bestaudio", "720", "1080", "audio"}
\* words given after -f: the accepted ones and some others
FormatWords == choices \cup {"480", "worst", "Best"}
DefaultOutput == "%(title)s [%(id)s].%(ext)s"

\* what follows the program name: each option given or not
ArgvSet ==
    [url : {Absent, Url}, f : FormatWords \cup {Absent},
     o : {Absent, "%(id)s.%(ext)s"}, list_formats : BOOLEAN, no_playlist : BOOLEAN]

\* len(sys.argv) == 1
NoArguments(a) ==
    /\ a.url = Absent /\ a.f = Absent /\ a.o = Absent
    /\ ~a.list_formats /\ ~a.no_playlist

NoArgs == [t |-> "(unparsed)"]

\* parser.parse_args(): the namespace, or the parser's error (exit status 2)
ParserError == [t |-> "error"]
\* parse_args without choices= on -f
parse_args_any_format(a) ==
    IF a.url = Absent THEN [t |-> "error"]
    ELSE [t |-> "Namespace", url |-> a.url,
          format |-> IF a.f = Absent THEN "best" ELSE a.f,
          output |-> IF a.o = Absent THEN DefaultOutput ELSE a.o,
          list_formats |-> a.list_formats, no_playlist |-> a.no_playlist]

parse_args(a) ==
    IF a.url = Absent THEN ParserError
    ELSE IF a.f # Absent /\ a.f \notin choices THEN ParserError
    ELSE [t |-> "Namespace", url |-> a.url,
          format |-> IF a.f = Absent THEN "best" ELSE a.f,
          output |-> IF a.o = Absent THEN DefaultOutput ELSE a.o,
          list_formats |-> a.list_formats, no_playlist |-> a.no_playlist]

-----------------------------------------------------------------------------
(* main's option dictionary, lines 74-107.                                 *)

Retries == 10

BaseOpts(ns) ==
    [outtmpl |-> ns.output, quiet |-> FALSE, no_warnings |-> TRUE,
     continuedl |-> TRUE, retries |-> Retries, fragment_retries |-> Retries,
     noplaylist |-> ns.no_playlist, progress_hooks |-> <<"progress_hook">>]

\* FormatSelection with the 'audio' branch falling into 'bestaudio'
FormatSelectionNoExtract(format) ==
    IF format = "best" THEN [format |-> "bestvideo+bestaudio/best"]
    ELSE IF format = "bestvideo" THEN [format |-> "bestvideo"]
    ELSE IF format \in {"bestaudio", "audio"} THEN [format |-> "bestaudio/best"]
    ELSE IF format = "720"
    THEN [format |-> "bestvideo[height<=720]+bestaudio/best[height<=720]"]
    ELSE IF format = "1080"
    THEN [format |-> "bestvideo[height<=1080]+bestaudio/best[height<=1080]"]
    ELSE EmptyDict

\* the if/elif chain over args.format: the keys it sets
FormatSelection(format) ==
    IF format = "best" THEN [format |-> "bestvideo+bestaudio/best"]
    ELSE IF format = "bestvideo" THEN [format |-> "bestvideo"]
    ELSE IF format = "bestaudio" THEN [format |-> "bestaudio/best"]
    ELSE IF format = "audio"
    THEN [format |-> "bestaudio/best",
          postprocessors |->
              <<[key |-> "FFmpegExtractAudio", preferredcodec |-> "m4a",
                 preferredquality |-> "192"]>>]
    ELSE IF format = "720"
    THEN [format |-> "bestvideo[height<=720]+bestaudio/best[height<=720]"]
    ELSE IF format = "1080"
    THEN [format |-> "bestvideo[height<=1080]+bestaudio/best[height<=1080]"]
    ELSE EmptyDict

\* if args.list_formats: the keys it overwrites or adds
ListFormatsOpts(ns) ==
    IF ns.list_formats
    THEN [listformats |-> TRUE, quiet |-> TRUE, simulate |-> TRUE]
    ELSE EmptyDict

\* later assignments win
BuildOpts(ns) == ListFormatsOpts(ns) @@ FormatSelection(ns.format) @@ BaseOpts(ns)

-----------------------------------------------------------------------------
(* The engine, as main sees it.                                            *)

NoYdl == [t |-> "(none)"]
\* extract_info called with download=True whatever the flags
ExtractCallDownload(ns) == [url |-> ns.url, download |-> TRUE]

\* ydl.extract_info(args.url, download=not args.list_formats)
ExtractCall(ns) == [url |-> ns.url, download |-> ~ns.list_formats]

\* The progress events of yt-dlp: status, the byte counters downloaded_bytes,
\* total_bytes and total_bytes_estimate, and the three preformatted texts.
\* Fields may be missing, None or of another type.
Field(k, values) == {EmptyDict} \cup {k :> v : v \in values}
Texts ==
    {EmptyDict,
     "_percent_str" :> Str("50.0%"),
     [_percent_str |-> Str("50.0%"), _speed_str |-> Str("1.2MiB/s"),
      _eta_str |-> Str("10s")]}
DownloadingEvents ==
    {("status" :> Str("downloading")) @@ a @@ b @@ c @@ x :
        a \in Field("downloaded_bytes", {None, IntOf(500), IntOf(2048), Str("n/a")}),
        b \in Field("total_bytes", {None, IntOf(1000), Str("n/a")}),
        c \in Field("total_bytes_estimate", {IntOf(1000)}),
        x \in Texts}
OtherEvents ==
    {[status |-> Str("finished"), downloaded_bytes |-> IntOf(1000),
      total_bytes |-> IntOf(1000)],
     [status |-> Str("finished")],
     [status |-> Str("error")],
     [status |-> None],
     [downloaded_bytes |-> IntOf(500)]}
ProgressEvents == DownloadingEvents \cup OtherEvents
NoEvent == [t |-> "(none)"]

\* The metadata records extract_info returns: a video (title and duration
\* may be missing) or a playlist (with entries).
DurationInputs == {0, 59, 3725, 360000}
Videos ==
    {a @@ b : a \in Field("title", {Str("Some Video")}),
              b \in Field("duration", {None} \cup {IntOf(n) : n \in DurationInputs})}
Playlists ==
    {a @@ ("entries" :> e) : a \in Field("title", {Str("Some List")}),
                             e \in {<<>>, <<"v1", "v2">>}}
Infos == Videos \cup Playlists

\* the failures extract_info signals: DownloadError, or any other Exception
EngineFailures ==
    {Exc("DownloadError", "ERROR: Video unavailable", "extract_info"),
     Exc("OSError", "Connection refused", "extract_info")}

-----------------------------------------------------------------------------
(* main's summary, lines 117-129.                                          *)

Dec2(n) == IF n < 10 THEN "0" \o ToString(n) ELSE ToString(n)

\* duration in seconds (a non-negative int) as [HH:]MM:SS
DurStr(duration) ==
    LET secs == duration % 60
        mins0 == duration \div 60
        hrs == mins0 \div 60
        mins == mins0 % 60
    IN  (IF hrs # 0 THEN Dec2(hrs) \o ":" ELSE "") \o Dec2(mins) \o ":" \o Dec2(secs)

Summary(info) ==
    IF "entries" \in DOMAIN info
    THEN <<PrintCall("playlist",
                     "\nPlaylist: " \o Get(info, "title", Str("Unknown")).s, "\n"),
           PrintCall("found",
                     "Found " \o ToString(Len(info["entries"])) \o " videos\n", "\n")>>
    ELSE LET title == Get(info, "title", Str("Unknown title"))
             duration == Get(info, "duration", IntOf(0))
         IN  <<PrintCall("title", "\nTitle: " \o title.s, "\n")>>
             \o (IF Truthy(duration)
                 THEN <<PrintCall("duration",
                                  "Duration: " \o DurStr(BitsNat(duration.bits)), "\n")>>
                 ELSE <<>>)

\* the except clauses with the broad one only
HandlerBroad(e) ==
    PrintCall("unexpected", "\nUnexpected error: " \o e.type \o ": " \o e.msg, "\n")

\* the except clauses, lines 131-136
Handler(e) ==
    IF e.type = "DownloadError"
    THEN PrintCall("failed", "\nDownload failed: " \o e.msg, "\n")
    ELSE PrintCall("unexpected",
                   "\nUnexpected error: " \o e.type \o ": " \o e.msg, "\n")

-----------------------------------------------------------------------------
(* The script, step by step.                                               *)

NoFrame == [t |-> "(none)"]

Init ==
    /\ pc = "import"
    /\ installed \in BOOLEAN
    /\ argv \in ArgvSet
    /\ args = NoArgs
    /\ ydl_opts = EmptyDict
    /\ ydl = NoYdl
    /\ exc = NoExc
    /\ event = NoEvent
    /\ delivered = [finished |-> 0, all |-> 0]
    /\ stdout = <<>>
    /\ shown = <<>>
    /\ exitcode = <<>>
    /\ fmt = NoFrame

Emit(prints) ==
    /\ stdout' = stdout \o Kinds(prints)
    /\ shown' = prints

\* sys.exit(code), or the end of the script (code 0)
Exit(code) ==
    /\ pc' = "exit"
    /\ exitcode' = <<code>>

InstallLines ==
    <<PrintCall("install", "Error: yt-dlp is not installed", "\n"),
      PrintCall("install", "Please run:   pip install --upgrade yt-dlp", "\n")>>

\* the import guard without its sys.exit(1)
ImportNoExit ==
    /\ pc = "import"
    /\ pc' = "script"
    /\ IF installed THEN UNCHANGED <<stdout, shown>> ELSE Emit(InstallLines)
    /\ UNCHANGED <<installed, argv, args, ydl_opts, ydl, exc, event, delivered,
                   exitcode, fmt>>

\* lines 17-22: try: from yt_dlp import ... except ImportError
Import ==
    /\ pc = "import"
    /\ IF installed
       THEN /\ pc' = "script"
            /\ UNCHANGED <<stdout, shown, exitcode>>
       ELSE /\ Emit(InstallLines)
            /\ Exit(1)
    /\ UNCHANGED <<installed, argv, args, ydl_opts, ydl, exc, event, delivered, fmt>>

UsageLines ==
    <<PrintCall("usage", "Usage examples:", "\n"),
      PrintCall("usage", "  python yt_downloader.py https://youtu.be/dQw4w9WgXcQ", "\n"),
      PrintCall("usage", "  python yt_downloader.py https://youtu.be/dQw4w9WgXcQ -f 1080", "\n"),
      PrintCall("usage", "  python yt_downloader.py https://youtu.be/dQw4w9WgXcQ -f audio", "\n"),
      PrintCall("usage",
                "  python yt_downloader.py https://youtube.com/playlist?list=PL... --no-playlist",
                "\n"),
      PrintCall("usage", "\nFirst time? Run:  pip install --upgrade yt-dlp\n", "\n")>>

\* the script guard testing len(sys.argv) == 0, which never holds
ScriptGuardNever ==
    /\ pc = "script"
    /\ pc' = "main"
    /\ UNCHANGED <<installed, argv, args, ydl_opts, ydl, exc, event, delivered,
                   stdout, shown, exitcode, fmt>>

\* lines 160-170: if __name__ == "__main__"
ScriptGuard ==
    /\ pc = "script"
    /\ IF NoArguments(argv)
       THEN /\ Emit(UsageLines)
            /\ Exit(0)
       ELSE /\ pc' = "main"
            /\ UNCHANGED <<stdout, shown, exitcode>>
    /\ UNCHANGED <<installed, argv, args, ydl_opts, ydl, exc, event, delivered, fmt>>

\* lines 35-72: the parser and parse_args (its error message goes to stderr)
ParseArgs ==
    /\ pc = "main"
    /\ LET ns == parse_args(argv)
       IN  IF ns = ParserError
           THEN /\ Exit(2)
                /\ shown' = <<>>
                /\ UNCHANGED <<args, stdout>>
           ELSE /\ args' = ns
                /\ pc' = "opts"
                /\ UNCHANGED <<stdout, shown, exitcode>>
    /\ UNCHANGED <<installed, argv, ydl_opts, ydl, exc, event, delivered, fmt>>

\* lines 74-107
MakeOpts ==
    /\ pc = "opts"
    /\ ydl_opts' = BuildOpts(args)
    /\ pc' = "try"
    /\ UNCHANGED <<installed, argv, args, ydl, exc, event, delivered, stdout,
                   shown, exitcode, fmt>>

\* lines 110-112: the engine is constructed and extract_info is called
CallExtract ==
    /\ pc = "try"
    /\ ydl' = [t |-> "YoutubeDL", params |-> ydl_opts,
               calls |-> <<ExtractCall(args)>>, result |-> NoEvent]
    /\ Emit(<<PrintCall("fetching", "\nFetching info... " \o args.url, "\n")>>)
    /\ pc' = "extract_info"
    /\ UNCHANGED <<installed, argv, args, ydl_opts, exc, event, delivered,
                   exitcode, fmt>>

\* inside extract_info: the engine calls the registered hook with an event
\* (only a download produces events); an exception of the hook leaves
\* extract_info
EngineProgress(d) ==
    /\ pc = "extract_info"
    /\ ydl.calls[1].download
    /\ ydl.params["progress_hooks"] = <<"progress_hook">>
    /\ delivered.all < MaxEvents
    /\ event' = d
    /\ delivered' =
         [all |-> delivered.all + 1,
          finished |-> delivered.finished
                       + (IF Get(d, "status", None) = Str("finished") THEN 1 ELSE 0)]
    /\ LET r == progress_hook(d)
       IN  IF r.raised = NoExc
           THEN /\ Emit(r.prints)
                /\ UNCHANGED <<pc, exc>>
           ELSE /\ exc' = r.raised
                /\ pc' = "except"
                /\ shown' = <<>>
                /\ UNCHANGED stdout
    /\ UNCHANGED <<installed, argv, args, ydl_opts, ydl, exitcode, fmt>>

\* extract_info returns a metadata record
EngineReturns(info) ==
    /\ pc = "extract_info"
    /\ ydl' = [ydl EXCEPT !.result = info]
    /\ pc' = "returned"
    /\ shown' = <<>>
    /\ event' = NoEvent
    /\ UNCHANGED <<installed, argv, args, ydl_opts, exc, delivered, stdout,
                   exitcode, fmt>>

\* extract_info raises
EngineFails(e) ==
    /\ pc = "extract_info"
    /\ exc' = e
    /\ pc' = "except"
    /\ shown' = <<>>
    /\ event' = NoEvent
    /\ UNCHANGED <<installed, argv, args, ydl_opts, ydl, delivered, stdout,
                   exitcode, fmt>>

\* lines 114-129, then the end of main and of the script
Summarize ==
    /\ pc = "returned"
    /\ IF args.list_formats
       THEN shown' = <<>> /\ UNCHANGED stdout
       ELSE Emit(Summary(ydl.result))
    /\ Exit(0)
    /\ UNCHANGED <<installed, argv, args, ydl_opts, ydl, exc, event, delivered, fmt>>

\* lines 131-136: both except clauses print and sys.exit(1)
HandleException ==
    /\ pc = "except"
    /\ Emit(<<Handler(exc)>>)
    /\ Exit(1)
    /\ UNCHANGED <<installed, argv, args, ydl_opts, ydl, exc, event, delivered, fmt>>

Next ==
    \/ Import
    \/ ScriptGuard
    \/ ParseArgs
    \/ MakeOpts
    \/ CallExtract
    \/ \E d \in ProgressEvents : EngineProgress(d)
    \/ \E info \in Infos : EngineReturns(info)
    \/ \E e \in EngineFailures : EngineFails(e)
    \/ Summarize
    \/ HandleException

Spec == Init /\ [][Next]_vars

-----------------------------------------------------------------------------
(* sizeof_fmt on its own: a call with an integer argument, run step by     *)
(* step.                                                                   *)

Mantissas ==
    {Ones(a) : a \in 1..MaxOnes} \cup {<<1>> \o Zeros(a) \o <<1>> : a \in 0..MaxOnes}

\* 0, and +-m * 2^e of up to MaxBits bits
OrdinaryInts ==
    {PyInt(FALSE, <<>>, 0)}
    \cup {PyInt(neg, m, e) : neg \in BOOLEAN,
                             m \in Mantissas,
                             e \in 0..MaxBits}

\* integers around the largest finite double
HugeInts ==
    {PyInt(neg, Ones(a), DBL_MAX_EXP - a + d) :
        neg \in BOOLEAN, a \in 1..MaxOnes, d \in {0 - 1, 0, 1}}

FmtInputs == {n \in OrdinaryInts : MagBits(n) <= MaxBits} \cup HugeInts

InitFmt ==
    /\ pc = "sizeof_fmt"
    /\ installed = TRUE
    /\ argv \in {a \in ArgvSet : NoArguments(a)}
    /\ args = NoArgs
    /\ ydl_opts = EmptyDict
    /\ ydl = NoYdl
    /\ exc = NoExc
    /\ event = NoEvent
    /\ delivered = [finished |-> 0, all |-> 0]
    /\ stdout = <<>>
    /\ shown = <<>>
    /\ exitcode = <<>>
    /\ fmt \in {SizeofEnter(n, "B") : n \in FmtInputs}

FmtStep ==
    /\ pc = "sizeof_fmt"
    /\ fmt.ret = NoRet
    /\ fmt' = SizeofIter(fmt)
    /\ UNCHANGED <<pc, installed, argv, args, ydl_opts, ydl, exc, event,
                   delivered, stdout, shown, exitcode>>

NextFmt == FmtStep

SpecFmt == InitFmt /\ [][NextFmt]_vars

-----------------------------------------------------------------------------
(* The claims.                                                             *)

Count(seq, x) == Cardinality({i \in 1..Len(seq) : seq[i] = x})
Delivered == event # NoEvent
HasStatus(s) == Delivered /\ "status" \in DOMAIN event /\ event["status"] = Str(s)

\* C1: the progress reporter never raises: whatever event it is called with,
\* no exception leaves progress_hook and reaches extract_info and main.
C1_HookNeverRaises == ~(exc # NoExc /\ exc.origin = "progress_hook")

C3_ZeroArgsEverywhere ==
    (NoArguments(argv) /\ pc = "exit") => (exitcode = <<0>> /\ shown = UsageLines)

\* C3 amended: where the engine library imports, a run with zero arguments
\* never parses arguments nor constructs the engine, and ends by printing
\* exactly the usage examples with status 0.
C3_ZeroArgsInstalled ==
    (NoArguments(argv) /\ installed) =>
        /\ pc \in {"import", "script", "exit"}
        /\ args = NoArgs
        /\ ydl = NoYdl
        /\ pc = "exit" =>
             /\ exitcode = <<0>>
             /\ shown = UsageLines
             /\ stdout = Kinds(UsageLines)

C3_Witness == NoArguments(argv) /\ installed /\ pc = "exit" /\ exitcode = <<0>>

\* C4: where the engine library does not import, the run prints the install
\* instructions and ends with status 1 whatever the arguments: the usage,
\* parse_args, the options and the engine are never reached.
C4_MissingDependency ==
    ~installed =>
        /\ pc \in {"import", "exit"}
        /\ args = NoArgs
        /\ DOMAIN ydl_opts = {}
        /\ ydl = NoYdl
        /\ pc = "exit" =>
             /\ exitcode = <<1>>
             /\ shown = InstallLines
             /\ stdout = Kinds(InstallLines)

C4_Witness ==
    /\ ~installed
    /\ pc = "exit"
    /\ argv.url # Absent
    /\ exitcode = <<1>>

\* C5: with --list-formats the engine gets simulate and listformats,
\* extract_info is called with download false and nothing of the summary is
\* printed; without it extract_info is called with download true.
C5_ListFormats ==
    ydl # NoYdl =>
        /\ ydl.calls[1].download = ~argv.list_formats
        /\ argv.list_formats =>
             /\ "simulate" \in DOMAIN ydl.params /\ ydl.params["simulate"]
             /\ "listformats" \in DOMAIN ydl.params /\ ydl.params["listformats"]
             /\ \A i \in 1..Len(stdout) :
                    stdout[i] \notin {"title", "duration", "playlist", "found"}
        /\ ~argv.list_formats =>
             /\ "simulate" \notin DOMAIN ydl.params
             /\ "listformats" \notin DOMAIN ydl.params

C5_Witness ==
    /\ pc = "exit"
    /\ argv.list_formats
    /\ ydl # NoYdl
    /\ ydl.result # NoEvent
    /\ exitcode = <<0>>

\* the table of format expressions, by -f value
C6_Capped(cap) ==
    "bestvideo[height<=" \o cap \o "]+bestaudio/best[height<=" \o cap \o "]"
C6_Expected(f) ==
    CASE f = "best" -> "bestvideo+bestaudio/best"
      [] f = "bestvideo" -> "bestvideo"
      [] f = "bestaudio" -> "bestaudio/best"
      [] f = "audio" -> "bestaudio/best"
      [] f \in {"720", "1080"} -> C6_Capped(f)

\* C6: the options hold, for the -f value given (best when none is), the
\* format expression the table above assigns to it, and the audio
\* extraction directive (m4a, 192) exactly for 'audio'; 'audio' and
\* 'bestaudio' get the same expression.
C6_FormatSelector ==
    /\ DOMAIN ydl_opts # {} =>
         LET f == IF argv.f = Absent THEN "best" ELSE argv.f
         IN  /\ f \in choices
             /\ "format" \in DOMAIN ydl_opts
             /\ ydl_opts["format"] = C6_Expected(f)
             /\ ("postprocessors" \in DOMAIN ydl_opts) <=> (f = "audio")
             /\ f = "audio" =>
                  ydl_opts["postprocessors"] =
                      <<[key |-> "FFmpegExtractAudio", preferredcodec |-> "m4a",
                         preferredquality |-> "192"]>>
    /\ FormatSelection("audio")["format"] = FormatSelection("bestaudio")["format"]
    /\ DOMAIN FormatSelection("audio") = DOMAIN FormatSelection("bestaudio")
                                         \cup {"postprocessors"}

C6_Witness ==
    /\ argv.f = "audio"
    /\ DOMAIN ydl_opts # {}
    /\ "postprocessors" \in DOMAIN ydl_opts

\* C7: a -f value outside the six accepted ones stops the run in parse_args
\* (status 2): no namespace, no options, no engine; and an engine, once
\* constructed, always has a format expression.
C7_UnknownFormatFailsFast ==
    /\ (argv.f \notin choices \cup {Absent}) =>
         /\ args = NoArgs
         /\ DOMAIN ydl_opts = {}
         /\ ydl = NoYdl
         /\ (pc = "exit" /\ installed) => exitcode = <<2>>
    /\ ydl # NoYdl => "format" \in DOMAIN ydl.params

C7_Witness ==
    /\ argv.f = "480"
    /\ argv.url # Absent
    /\ installed
    /\ pc = "exit"
    /\ exitcode = <<2>>

\* the event carries a byte count under key k
C8_Known(k) ==
    /\ k \in DOMAIN event
    /\ event[k].t = "int"
    /\ event[k].bits # <<>>

\* C8: after a 'downloading' event was reported, the size field of the line
\* is "downloaded / total" exactly when the event carries a total byte
\* count, be it total_bytes or only the estimate, total_bytes_estimate.
C8_SizeField ==
    (HasStatus("downloading") /\ pc = "extract_info" /\ Len(shown) = 1) =>
        /\ shown[1].kind = "progress"
        /\ shown[1].end = ""
        /\ (Len(shown[1].text.size.parts) = 2)
             <=> (C8_Known("total_bytes") \/ C8_Known("total_bytes_estimate"))

\* C9: the completion announcements printed are as many as the 'finished'
\* events delivered, each printed in full and newline-terminated; an event
\* with another status than 'downloading' and 'finished' prints nothing and
\* raises nothing.
C9_Announcements ==
    /\ Count(stdout, "complete") = delivered.finished
    /\ HasStatus("finished") =>
         /\ pc = "extract_info"
         /\ exc = NoExc
         /\ shown = <<PrintCall("complete",
                                "\nDownload complete, now post-processing...", "\n")>>
    /\ (Delivered /\ "status" \in DOMAIN event
          /\ ~HasStatus("finished") /\ ~HasStatus("downloading")) =>
         /\ pc = "extract_info"
         /\ exc = NoExc
         /\ shown = <<>>

\* a 'finished' event, then an event with status 'error'
C9_Witness ==
    /\ delivered.finished = 1
    /\ delivered.all = 2
    /\ Count(stdout, "complete") = 1
    /\ HasStatus("error")
    /\ shown = <<>>

\* C10: the interval of the argument: k with 1024^k <= |n| < 1024^(k+1)
C10_K(n) == IF MagBits(n) = 0 THEN 0 ELSE (MagBits(n) - 1) \div KibiBits
C10_Unit(k) == IF k < Len(units) THEN units[k + 1] ELSE "Yi"
C10_Divs(k) == IF k < Len(units) THEN k ELSE Len(units)

\* C10 as stated: for every integer n with 1024^k <= |n| < 1024^(k+1) the
\* call returns with the k-th unit after exactly k divisions (k <= 7), and
\* with Yi after exactly 8 divisions for |n| >= 1024^8.
C10_UnitByInterval ==
    (pc = "sizeof_fmt" /\ fmt.ret # NoRet) =>
        /\ fmt.ret.t = "return"
        /\ fmt.ret.text.unit = C10_Unit(C10_K(fmt.arg))
        /\ fmt.divs = C10_Divs(C10_K(fmt.arg))

\* |n| >= 2^L - 2^(L-54), L the bit length of |n|: the nearest double is 2^L
C10_RoundsToPower(n) ==
    /\ Len(n.bits) > DBL_MANT_DIG
    /\ \A i \in 1..(DBL_MANT_DIG + 1) : n.bits[i] = 1
\* |n| >= 2^1024 - 2^970: no finite double is nearest
C10_TooLarge(n) ==
    \/ MagBits(n) > DBL_MAX_EXP
    \/ MagBits(n) = DBL_MAX_EXP /\ C10_RoundsToPower(n)
\* the interval of the double nearest to n
C10_KRounded(n) ==
    IF C10_RoundsToPower(n) /\ MagBits(n) % KibiBits = 0
    THEN C10_K(n) + 1 ELSE C10_K(n)

\* C10 amended: for every integer n with |n| < 2^1024 - 2^970 the call
\* returns with the unit and the number of divisions of the interval of the
\* double nearest to n: that of n itself, except that an n with
\* |n| >= 1024^(k+1) - 2^(10(k+1)-54) counts as 1024^(k+1); a larger |n|
\* raises OverflowError at the first division.  The loop never indexes
\* past the unit list.
C10_UnitByRoundedInterval ==
    pc = "sizeof_fmt" =>
        /\ fmt.i = fmt.divs + 1
        /\ fmt.ret = NoRet => fmt.i <= Len(units) + 1
        /\ (fmt.ret # NoRet /\ ~C10_TooLarge(fmt.arg)) =>
             /\ fmt.ret.t = "return"
             /\ fmt.ret.text.unit = C10_Unit(C10_KRounded(fmt.arg))
             /\ fmt.divs = C10_Divs(C10_KRounded(fmt.arg))
        /\ (fmt.ret # NoRet /\ C10_TooLarge(fmt.arg)) =>
             /\ fmt.ret.t = "raise"
             /\ fmt.ret.kind = "OverflowError"
             /\ fmt.divs = 0

\* 2^60 - 1 lies in the Pi interval and is formatted as 1.0EiB
C10_Witness ==
    /\ pc = "sizeof_fmt"
    /\ fmt.arg = PyInt(FALSE, Ones(60), 0)
    /\ fmt.ret # NoRet
    /\ fmt.ret.t = "return"
    /\ fmt.ret.text.unit = "Ei"
    /\ fmt.divs = 6
    /\ BitsNat(fmt.ret.text.num.tenths) = 10

====
